---- MODULE Spec2Model ----
(***************************************************************************)
(* Model of coral_cts.py: the TestSuite class (results, thermals, the      *)
(* output file, the child processes it launches) and main().               *)
(*                                                                         *)
(* A Python string is modelled as the sequence of the pieces it is         *)
(* concatenated from; the output file is the sequence of pieces written to *)
(* it.  A Python dict is modelled as a sequence of key/value records in    *)
(* insertion order.  A child process is modelled by what the parent        *)
(* observes of it: whether Popen succeeded, the lines read from its pipe,  *)
(* whether the read loop ended at end-of-file or with an exception, and    *)
(* the exit code wait() returned.                                          *)
(***************************************************************************)
EXTENDS Integers, Sequences, FiniteSets, TLC

VARIABLES
    driver,         \* "main": main() as written; "api": a caller using TestSuite in a with-block
    platform,       \* sys.platform
    test_name,      \* args.test_name
    pc,             \* position of the driver
    ix,             \* main(): index of the next `if args.test_name == ...` statement
    exc,            \* an exception is propagating out of the with-block
    ops,            \* number of detect_tpus and run_test calls of the "api" driver
    results,        \* self.results
    thermals,       \* self.thermals
    tpus,           \* self.tpus
    pci,            \* self.pci
    usb,            \* self.usb
    file,           \* content of the file at self.file_path
    cmds,           \* print_system_info: the _run_linux_system_command calls still to make
    pre,            \* history: content of the file when __exit__ was entered
    finalizations,  \* history: number of completed _write_summary calls
    calls,          \* history: the argument of every run_test call, in order
    last,           \* history: what the latest run_test observed of its child
    cat,            \* history: what the latest _read_temperatures observed
    unwaited,       \* history: number of children launched and never waited for
    overlap,        \* history: a child was launched while an earlier one was still executing
    exited,         \* history: tests whose child process ran to exit
    summary,        \* history: the string `summary` composed by the latest _write_summary
    recorded        \* history: every assignment self.results[key] = val, in order

vars == <<driver, platform, test_name, pc, ix, exc, ops, results, thermals, tpus, pci,
          usb, file, cmds, pre, finalizations, calls, last, cat, unwaited, overlap,
          exited, summary, recorded>>

(***************************************************************************)
(* Bounds                                                                  *)
(***************************************************************************)
\* Number of detect_tpus and run_test calls the "api" driver makes in its with-block.
MaxOps == 3

(***************************************************************************)
(* Strings                                                                 *)
(***************************************************************************)
NoTemp == [int |-> 0, milli |-> 0]

\* One piece of a string: a literal, or the text of a float.
Str(s) == <<[k |-> "str", s |-> s, d |-> NoTemp]>>

StrFloat(t) == <<[k |-> "float", s |-> "", d |-> t]>>

CTS_HEADER == Str("CTS_HEADER")

SECTION_HEADER == Str("SECTION_HEADER")

NL == Str("NL")

RECURSIVE Join(_)
\* The concatenation of the lines of a child's output.
Join(lines) == IF lines = <<>> THEN <<>> ELSE Str(Head(lines)) \o Join(Tail(lines))

(***************************************************************************)
(* Dictionaries (insertion ordered)                                        *)
(***************************************************************************)
Keys(d) == {d[i].key : i \in 1..Len(d)}

Get(d, k) == (CHOOSE i \in 1..Len(d) : d[i].key = k)

Value(d, k) == d[Get(d, k)].val

\* Faulty d[k] = v: a list append, which keeps the earlier entry of the key.
DictSet_append(d, k, v) == Append(d, [key |-> k, val |-> v])

\* d[k] = v
DictSet(d, k, v) ==
    IF k \in Keys(d)
    THEN [d EXCEPT ![Get(d, k)] = [key |-> k, val |-> v]]
    ELSE Append(d, [key |-> k, val |-> v])

(***************************************************************************)
(* Inputs: what the environment can answer                                 *)
(***************************************************************************)
Platforms == {"linux", "darwin"}

TestNames ==
    <<"tflite_utils_test", "inference_stress_test", "model_loading_stress_test",
      "inference_repeatability_test", "classification_models_test",
      "detection_models_test", "segmentation_models_test",
      "multiple_tpus_inference_stress_test", "models_benchmark">>

Recognized == {TestNames[i] : i \in 1..Len(TestNames)}

\* Values of --test_name: the nine recognized ones and one that matches nothing.
Selectors == Recognized \cup {"no_such_test"}

\* The tests the "api" driver runs.
ApiTests == {"detection_models_test", "classification_models_test"}

\* needle in line, for the lines and needles that occur.
Substrings ==
    { <<"PCI", "/dev/apex_0 PCI">>,
      <<"USB", "/sys/bus/usb/devices/2-1 USB">>,
      <<"apex", "apex 0000:01:00.0: Apex performance not throttled">> }

Contains(needle, line) == <<needle, line>> \in Substrings

Run(launch, lines, ended, rc) ==
    [launch |-> launch, lines |-> lines, ended |-> ended, rc |-> rc]

\* A test executable: missing; output that cannot be decoded; pass; fail; crash.
TestRuns ==
    { Run(FALSE, <<>>, "exc", 0),
      Run(TRUE, <<"running 1 test">>, "exc", 0),
      Run(TRUE, <<"1 test passed">>, "eof", 0),
      Run(TRUE, <<"1 test failed">>, "eof", 1),
      Run(TRUE, <<>>, "eof", -11) }

\* lstpu: missing; one USB device; a PCI and a USB device; output that cannot
\* be decoded after the first line.
DetectRuns ==
    { Run(FALSE, <<>>, "exc", 0),
      Run(TRUE, <<"/sys/bus/usb/devices/2-1 USB">>, "eof", 0),
      Run(TRUE, <<"/dev/apex_0 PCI", "/sys/bus/usb/devices/2-1 USB">>, "eof", 0),
      Run(TRUE, <<"/dev/apex_0 PCI">>, "exc", 0) }

\* dmesg, lspci, lsusb: two lines; output that cannot be decoded after the
\* first line.
SysRuns ==
    { Run(TRUE, <<"apex 0000:01:00.0: Apex performance not throttled",
                  "usb 1-1: new high-speed USB device">>, "eof", 0),
      Run(TRUE, <<"usb 1-1: new high-speed USB device">>, "exc", 0) }

\* Lines of `cat /sys/class/apex/apex_*/temp` that float() accepts, in millidegrees.
Millis == [l \in {"41500", "52000"} |-> IF l = "41500" THEN 41500 ELSE 52000]

IsFloat(line) == line \in DOMAIN Millis

\* cat (stderr merged into stdout): two readings; no file; a reading
\* followed by an unreadable file.
CatRuns ==
    { Run(TRUE, <<"52000", "41500">>, "eof", 0),
      Run(TRUE, <<"cat: No such file or directory">>, "eof", 1),
      Run(TRUE, <<"41500", "cat: Permission denied">>, "eof", 1) }

NoRun == Run(FALSE, <<>>, "none", 0)

\* str(e)
ExcText(o) ==
    IF o.launch THEN Str("'utf-8' codec can't decode byte")
    ELSE Str("[Errno 2] No such file or directory")

(***************************************************************************)
(* Temperatures                                                            *)
(***************************************************************************)
\* float(line) / 1000.0, kept exact as whole degrees and thousandths.
ToDegrees(line) == [int |-> Millis[line] \div 1000, milli |-> Millis[line] % 1000]

\* a <= b on floats
FloatLE(a, b) == a.int < b.int \/ (a.int = b.int /\ a.milli <= b.milli)

RECURSIVE MaxFrom(_, _)
MaxFrom(best, rest) ==
    IF rest = <<>> THEN best
    ELSE MaxFrom(IF FloatLE(Head(rest), best) THEN best ELSE Head(rest), Tail(rest))

\* max(values) of a non-empty list
Max(values) == MaxFrom(Head(values), Tail(values))

RECURSIVE Temperatures(_)
\* The list `temperatures` when the read loop ends: float() raises on the
\* first line it rejects and the loop is left.
Temperatures(lines) ==
    IF lines = <<>> \/ ~IsFloat(Head(lines)) THEN <<>>
    ELSE <<ToDegrees(Head(lines))>> \o Temperatures(Tail(lines))

\* The try block of _read_temperatures raised: Popen failed or float() did.
ReadFailed(c) == ~c.launch \/ \E i \in 1..Len(c.lines) : ~IsFloat(c.lines[i])

\* Faulty _read_temperatures: the readings are dropped when the try block raised.
read_temperatures_strict(th, current_test, c) ==
    IF ~ReadFailed(c) /\ Temperatures(c.lines) # <<>>
    THEN DictSet(th, current_test, Max(Temperatures(c.lines)))
    ELSE th

\* self.thermals after _read_temperatures(current_test)
read_temperatures(th, current_test, c) ==
    IF Temperatures(c.lines) # <<>>
    THEN DictSet(th, current_test, Max(Temperatures(c.lines)))
    ELSE th

Values(d) == [i \in 1..Len(d) |-> d[i].val]

(***************************************************************************)
(* _write_thermal_summary and _write_summary                               *)
(***************************************************************************)
PassedOrFailed(b) == IF b THEN Str("Passed") ELSE Str("Failed")

RECURSIVE ThermalLines(_)
ThermalLines(th) ==
    IF th = <<>> THEN <<>>
    ELSE Str(Head(th).key) \o Str(": ") \o StrFloat(Head(th).val) \o NL
         \o ThermalLines(Tail(th))

\* What _write_thermal_summary prints.
write_thermal_summary(th) ==
    NL \o SECTION_HEADER \o Str("Temperatures During Tests") \o NL \o SECTION_HEADER
    \o ThermalLines(th) \o NL

RECURSIVE ResultLines(_)
\* The lines the loop over self.results adds to `summary`.
ResultLines(res) ==
    IF res = <<>> THEN <<>>
    ELSE Str(Head(res).key) \o Str(": ") \o PassedOrFailed(Head(res).val = TRUE) \o NL
         \o ResultLines(Tail(res))

\* Faulty loop body: overall_passed = self.results[test]
overall_passed_last(res) == IF res = <<>> THEN TRUE ELSE res[Len(res)].val

RECURSIVE OverallFrom(_, _)
OverallFrom(acc, res) ==
    IF res = <<>> THEN acc ELSE OverallFrom(acc /\ Head(res).val, Tail(res))

\* overall_passed when the loop over self.results ends
overall_passed(res) == OverallFrom(TRUE, res)

\* Faulty max_temp: the value of the entry recorded last.
max_temp_last(th) == th[Len(th)].val

\* max_temp = max(self.thermals.values())
max_temp(th) == Max(Values(th))

\* The string `summary` that _write_summary composes.
Summary(res, th) ==
    CTS_HEADER \o ResultLines(res)
    \o (IF th # <<>> THEN Str("\\nMax Temperature (C): ") \o StrFloat(max_temp(th))
        ELSE <<>>)
    \o Str("\\nOverall Compatibility: ") \o PassedOrFailed(overall_passed(res) = TRUE) \o NL

\* Faulty rewrite: the old content is not copied after the summary.
Rewritten_lost(sum, old) == sum \o NL \o NL

\* The content of the temporary file that replaces the output file.
Rewritten(sum, old) == sum \o NL \o NL \o old

\* Faulty __exit__: the summary is written only when the block ended normally.
exit_finalizes_clean(exc_type) == ~exc_type

\* __exit__ calls _write_summary whatever exception it is given.
exit_finalizes(exc_type) == TRUE

(***************************************************************************)
(* Children                                                                *)
(***************************************************************************)
\* The read loop of a Popen/drain/wait block was left by an exception, so
\* proc.wait() was not reached.
Abandoned(o) == o.launch /\ o.ended = "exc"

\* Book-keeping of one block that launches a child if `launched` and leaves a
\* child not waited for if `left`.  A child that was not waited for earlier
\* may or may not have ended by itself when the next one is launched.
Children(launched, left) ==
    /\ overlap' \in (IF launched /\ unwaited > 0 THEN {overlap, TRUE} ELSE {overlap})
    /\ unwaited' = unwaited + (IF left THEN 1 ELSE 0)

(***************************************************************************)
(* TestSuite.run_test                                                      *)
(***************************************************************************)
\* Faulty result: only a positive exit code fails the test.
TestPassed_positive(returncode) == ~(returncode > 0)

\* `if proc.returncode:` records False, else True.
TestPassed(returncode) == returncode = 0

\* Faulty condition: the temperatures are read on linux whatever was detected.
SamplesTemperature_anybus == platform = "linux"

\* if self.pci and sys.platform == "linux"
SamplesTemperature == pci /\ platform = "linux"

\* The try block of run_test raised.
RunFailed(o) == ~o.launch \/ o.ended = "exc"

\* run_test(test) where the child answers o and, when the temperatures are
\* read, cat answers c.
run_test(test, o, c) ==
    LET current_test == test[1]
        sample == ~RunFailed(o) /\ SamplesTemperature
    IN  /\ calls' = Append(calls, test)
        /\ file' = file \o NL \o SECTION_HEADER \o Str(current_test) \o NL
                        \o SECTION_HEADER \o Join(o.lines)
                        \o (IF RunFailed(o) THEN ExcText(o) \o NL ELSE <<>>)
        /\ last' = [test |-> current_test,
                    command |-> <<"os.getcwd()", "/", current_test>> \o Tail(test),
                    run |-> o]
        /\ results' = DictSet(results, current_test,
                              IF RunFailed(o) THEN FALSE ELSE TestPassed(o.rc))
        /\ recorded' = Append(recorded,
                              [key |-> current_test,
                               val |-> IF RunFailed(o) THEN FALSE ELSE TestPassed(o.rc)])
        /\ exited' = IF RunFailed(o) THEN exited ELSE exited \cup {current_test}
        /\ thermals' = IF sample THEN read_temperatures(thermals, current_test, c)
                       ELSE thermals
        /\ cat' = IF sample THEN c ELSE NoRun
        /\ Children(o.launch, Abandoned(o) \/ (sample /\ c.launch /\ ReadFailed(c)))

\* run_test(test) with every answer of the environment.
RunTestAny(test) ==
    \E o \in TestRuns :
        IF ~RunFailed(o) /\ SamplesTemperature
        THEN \E c \in CatRuns : run_test(test, o, c)
        ELSE run_test(test, o, NoRun)

(***************************************************************************)
(* TestSuite.detect_tpus                                                   *)
(***************************************************************************)
detect_tpus(o) ==
    LET n == tpus + Len(o.lines)
    IN  /\ pci' = (pci \/ \E i \in 1..Len(o.lines) : Contains("PCI", o.lines[i]))
        /\ usb' = (usb \/ \E i \in 1..Len(o.lines) : Contains("USB", o.lines[i]))
        /\ tpus' = n
        /\ results' = DictSet(results, "lstpu", n # 0)
        /\ recorded' = Append(recorded, [key |-> "lstpu", val |-> n # 0])
        /\ file' = file \o NL \o SECTION_HEADER \o Str("Detected TPUs (lstpu)") \o NL
                        \o SECTION_HEADER \o Join(o.lines)
                        \o (IF RunFailed(o) THEN ExcText(o) \o NL ELSE <<>>)
                        \o (IF n = 0 THEN Str("No TPUs detected") \o NL ELSE <<>>)
        /\ Children(o.launch, Abandoned(o))

(***************************************************************************)
(* TestSuite.print_system_info and _run_linux_system_command               *)
(***************************************************************************)
Command(header, command, output_parse) ==
    [header |-> header, command |-> command, output_parse |-> output_parse]

PciCommands ==
    << Command("TPU Kernel Messages", <<"dmesg">>, "apex"),
       Command("PCI Info", <<"lspci", "-vvv", "-d 1ac1:089a">>, "") >>

UsbCommands ==
    << Command("USB Devices", <<"lsusb">>, ""),
       Command("USB Tree", <<"lsusb", "-t">>, ""),
       Command("USB Detailed Info (TPU in standard mode)",
               <<"lsusb", "-v", "-d 18d1:9302">>, ""),
       Command("USB Detailed Info (TPU in DFU mode)",
               <<"lsusb", "-v", "-d 1a6e:089a">>, "") >>

\* The commands print_system_info goes on to run.
SystemCommands ==
    IF platform = "linux"
    THEN IF pci THEN PciCommands ELSE IF usb THEN UsbCommands ELSE <<>>
    ELSE <<>>

RECURSIVE Echoed(_, _)
\* The lines _run_linux_system_command prints.
Echoed(lines, output_parse) ==
    IF lines = <<>> THEN <<>>
    ELSE (IF output_parse = "" \/ Contains(output_parse, Head(lines))
          THEN Str(Head(lines)) ELSE <<>>)
         \o Echoed(Tail(lines), output_parse)

\* Where the driver goes on after print_system_info.
AfterInfo == IF driver = "main" THEN "dispatch" ELSE "body"

\* The part of a driver's state that no TestSuite method writes.
DriverUnchanged == UNCHANGED <<driver, platform, test_name, exc, pre, finalizations, summary>>

RunUnchanged == UNCHANGED <<results, thermals, calls, last, cat, exited, recorded>>

PrintSystemInfo ==
    /\ \/ driver = "main" /\ pc = "info"
       \/ driver = "api" /\ pc = "detect"
    /\ file' = file \o NL \o SECTION_HEADER \o Str("System Info") \o NL
                    \o SECTION_HEADER \o Str("platform.platform()") \o NL
    /\ cmds' = SystemCommands
    /\ pc' = IF SystemCommands = <<>> THEN AfterInfo ELSE "cmds"
    /\ DriverUnchanged
    /\ RunUnchanged
    /\ UNCHANGED <<ix, ops, tpus, pci, usb, unwaited, overlap>>

RunLinuxSystemCommand ==
    /\ pc = "cmds"
    /\ cmds # <<>>
    /\ \E o \in SysRuns :
          /\ file' = file \o Str("\\n***** ") \o Str(Head(cmds).header) \o Str(" *****\\n")
                          \o Echoed(o.lines, Head(cmds).output_parse)
                          \o (IF RunFailed(o) THEN ExcText(o) \o NL ELSE <<>>)
          /\ Children(o.launch, Abandoned(o))
    /\ cmds' = Tail(cmds)
    /\ pc' = IF Tail(cmds) = <<>> THEN AfterInfo ELSE "cmds"
    /\ DriverUnchanged
    /\ RunUnchanged
    /\ UNCHANGED <<ix, ops, tpus, pci, usb>>

(***************************************************************************)
(* main                                                                    *)
(***************************************************************************)
\* The local `tpus` of main: detect_tpus is not called, the count is fixed.
main_tpus == 1

Branch(name, args, multi) == [name |-> name, test |-> <<name>> \o args, multi |-> multi]

\* The `if` statements of main in order: the literal compared with
\* args.test_name, the list passed to run_test, and whether `tpus > 1` is
\* part of the condition.
Branches ==
    << Branch("tflite_utils_test", <<>>, FALSE),
       Branch("inference_stress_test",
              <<"--stress_test_runs=10000", "--stress_with_sleep_test_runs=200">>, FALSE),
       Branch("model_loading_stress_test", <<"--stress_test_runs=50">>, FALSE),
       Branch("inference_repeatability_test",
              <<"--stress_test_runs=1000", "--gtest_repeat=20">>, FALSE),
       Branch("classification_models_test",
              <<"--gtest_repeat=10",
                "--gtest_filter=-*tfhub_tf2_resnet_50_imagenet_ptq*">>, FALSE),
       Branch("detection_models_test", <<"--gtest_repeat=100">>, FALSE),
       Branch("segmentation_models_test", <<"--gtest_repeat=100">>, FALSE),
       Branch("multiple_tpus_inference_stress_test", <<"--num_inferences=5000">>, TRUE),
       Branch("models_benchmark", <<"--benchmark_color=false">>, FALSE) >>

\* Faulty condition: the device count is not looked at.
Taken_ungated(b) == test_name = b.name

\* The condition of one `if` statement of main.
Taken(b) == (b.multi => main_tpus > 1) /\ test_name = b.name

\* One `if` statement of main.
Dispatch ==
    /\ driver = "main"
    /\ pc = "dispatch"
    /\ IF Taken(Branches[ix])
       THEN RunTestAny(Branches[ix].test)
       ELSE /\ RunUnchanged
            /\ UNCHANGED <<file, unwaited, overlap>>
    /\ ix' = ix + 1
    /\ pc' = IF ix = Len(Branches) THEN "end" ELSE "dispatch"
    /\ DriverUnchanged
    /\ UNCHANGED <<ops, tpus, pci, usb, cmds>>

(***************************************************************************)
(* A caller of TestSuite                                                   *)
(***************************************************************************)
\* The caller follows the order main was written for: detection, then the
\* system information, then tests.
ApiDetectTpus ==
    /\ driver = "api"
    /\ pc = "detect"
    /\ ops < MaxOps
    /\ ops' = ops + 1
    /\ \E o \in DetectRuns : detect_tpus(o)
    /\ DriverUnchanged
    /\ UNCHANGED <<pc, ix, cmds, thermals, calls, last, cat, exited>>

ApiRunTest ==
    /\ driver = "api"
    /\ pc \in {"detect", "body"}
    /\ ops < MaxOps
    /\ ops' = ops + 1
    /\ pc' = "body"
    /\ \E t \in ApiTests : RunTestAny(<<t>>)
    /\ DriverUnchanged
    /\ UNCHANGED <<ix, cmds, tpus, pci, usb>>

(***************************************************************************)
(* The with-statement                                                      *)
(***************************************************************************)
\* __exit__(exc_type, ...), and with it _write_summary; an exception goes on
\* to propagate afterwards.
exit(exc_type) ==
    /\ pc' = "done"
    /\ exc' = exc_type
    /\ cmds' = <<>>
    /\ pre' = file
    /\ IF exit_finalizes(exc_type)
       THEN LET sink == file \o (IF thermals # <<>> THEN write_thermal_summary(thermals)
                                 ELSE <<>>)
            IN  /\ summary' = Summary(results, thermals)
                /\ file' = Rewritten(Summary(results, thermals), sink)
                /\ finalizations' = finalizations + 1
       ELSE UNCHANGED <<summary, file, finalizations>>
    /\ UNCHANGED <<driver, platform, test_name, ix, ops, results, thermals, tpus,
                   pci, usb, calls, last, cat, unwaited, overlap, exited, recorded>>

\* The with-block ends normally.
Leave ==
    /\ \/ driver = "main" /\ pc = "end"
       \/ driver = "api" /\ pc \in {"detect", "body"}
    /\ exit(FALSE)

\* An exception that no method catches (KeyboardInterrupt, an error writing to
\* the console) leaves the with-block.
Raise ==
    /\ pc \in {"info", "cmds", "dispatch", "detect", "body"}
    /\ exit(TRUE)

(***************************************************************************)
(* Specification                                                           *)
(***************************************************************************)
\* The state when the with-block is entered: TestSuite.__init__ has run.
Init ==
    /\ driver \in {"main", "api"}
    /\ platform \in Platforms
    /\ test_name \in (IF driver = "main" THEN Selectors ELSE {"tflite_utils_test"})
    /\ pc = (IF driver = "main" THEN "info" ELSE "detect")
    /\ ix = 1
    /\ exc = FALSE
    /\ ops = 0
    /\ results = <<>>
    /\ thermals = <<>>
    /\ tpus = 0
    /\ pci = FALSE
    /\ usb = FALSE
    /\ file = <<>>
    /\ cmds = <<>>
    /\ pre = <<>>
    /\ finalizations = 0
    /\ calls = <<>>
    /\ last = [test |-> "", command |-> <<>>, run |-> NoRun]
    /\ cat = NoRun
    /\ unwaited = 0
    /\ overlap = FALSE
    /\ exited = {}
    /\ summary = <<>>
    /\ recorded = <<>>

Next ==
    \/ PrintSystemInfo
    \/ RunLinuxSystemCommand
    \/ Dispatch
    \/ ApiDetectTpus
    \/ ApiRunTest
    \/ Leave
    \/ Raise

Spec == Init /\ [][Next]_vars

(***************************************************************************)
(* Properties                                                              *)
(***************************************************************************)
Finalized == finalizations > 0

MaxLabel == "\\nMax Temperature (C): "

OverallLabel == "\\nOverall Compatibility: "

\* The Passed/Failed piece of the overall line of `summary`.
OverallWord == summary[Len(summary) - 1].s

\* C1: once _write_summary has run, the overall line of the summary reads
\* "Passed" if and only if every recorded result is true, and "Failed"
\* otherwise; with no recorded result it reads "Passed".
C1_OverallPassedIffAllTrue ==
    Finalized =>
        /\ Len(summary) >= 4
        /\ summary[Len(summary) - 2].s = OverallLabel
        /\ OverallWord \in {"Passed", "Failed"}
        /\ OverallWord = "Passed" <=> \A i \in 1..Len(results) : results[i].val = TRUE
        /\ results = <<>> => OverallWord = "Passed"

\* A false result recorded before a true one, and the summary written.
C1_Witness ==
    /\ Finalized
    /\ Len(results) = 2
    /\ results[1].val = FALSE
    /\ results[2].val = TRUE
    /\ OverallWord = "Failed"

\* Number of pieces of the summary: banner, four per result, two for the
\* maximum temperature when there is one, three for the overall line.
SummaryLen == 1 + 4 * Len(results) + (IF thermals # <<>> THEN 2 ELSE 0) + 3

\* Number of pieces of the temperature block: five for its heading, four per
\* test, one for the closing newline.
BlockLen == IF thermals # <<>> THEN 5 + 4 * Len(thermals) + 1 ELSE 0

\* C2: after _write_summary the file holds, in this order, the banner, one
\* line per recorded test, the maximum temperature line when thermals is not
\* empty, the overall line, two newlines, everything written before __exit__
\* and the temperature block written by it.
C2_FileIsSummaryThenCaptured ==
    Finalized =>
        LET n == Len(results)
            b == SummaryLen + 2 + Len(pre)
        IN  /\ Len(file) = SummaryLen + 2 + Len(pre) + BlockLen
            /\ file[1].s = "CTS_HEADER"
            /\ \A i \in 1..n :
                  /\ file[4 * i - 2].s = results[i].key
                  /\ file[4 * i - 1].s = ": "
                  /\ file[4 * i].s = (IF results[i].val THEN "Passed" ELSE "Failed")
                  /\ file[4 * i + 1].s = "NL"
            /\ thermals # <<>> =>
                  /\ file[4 * n + 2].s = MaxLabel
                  /\ file[4 * n + 3].k = "float"
            /\ file[SummaryLen - 2].s = OverallLabel
            /\ file[SummaryLen - 1].s \in {"Passed", "Failed"}
            /\ file[SummaryLen].s = "NL"
            /\ file[SummaryLen + 1].s = "NL"
            /\ file[SummaryLen + 2].s = "NL"
            /\ \A i \in 1..Len(pre) : file[SummaryLen + 2 + i] = pre[i]
            /\ thermals # <<>> =>
                  /\ file[b + 1].s = "NL"
                  /\ file[b + 2].s = "SECTION_HEADER"
                  /\ file[b + 3].s = "Temperatures During Tests"
                  /\ file[b + 4].s = "NL"
                  /\ file[b + 5].s = "SECTION_HEADER"
                  /\ \A j \in 1..Len(thermals) :
                        /\ file[b + 4 * j + 2].s = thermals[j].key
                        /\ file[b + 4 * j + 3].s = ": "
                        /\ file[b + 4 * j + 4].k = "float"
                        /\ file[b + 4 * j + 4].d = thermals[j].val
                        /\ file[b + 4 * j + 5].s = "NL"
                  /\ file[Len(file)].s = "NL"

\* The summary written over captured output, two results and a temperature block.
C2_Witness ==
    /\ Finalized
    /\ Len(results) >= 2
    /\ thermals # <<>>
    /\ Len(pre) > 10
    /\ Len(file) > SummaryLen + 2 + Len(pre)

\* C3: the summary holds a maximum temperature line if and only if thermals
\* is not empty, and the value on it is the greatest value in thermals.
C3_MaxTemperatureLine ==
    Finalized =>
        /\ (\E i \in 1..Len(summary) : summary[i].s = MaxLabel) <=> thermals # <<>>
        /\ \A i \in 1..Len(summary) :
              summary[i].s = MaxLabel =>
                  /\ summary[i + 1].k = "float"
                  /\ \E j \in 1..Len(thermals) : thermals[j].val = summary[i + 1].d
                  /\ \A j \in 1..Len(thermals) : FloatLE(thermals[j].val, summary[i + 1].d)

\* Two tests with different temperatures, the greater recorded first.
C3_Witness ==
    /\ Finalized
    /\ Len(thermals) = 2
    /\ thermals[1].val # thermals[2].val
    /\ FloatLE(thermals[2].val, thermals[1].val)
    /\ \E i \in 1..Len(summary) : summary[i].s = MaxLabel

RECURSIVE FirstRecorded(_, _)
\* The keys of a sequence of assignments, each at its first occurrence.
FirstRecorded(seen, rec) ==
    IF rec = <<>> THEN <<>>
    ELSE IF Head(rec).key \in seen THEN FirstRecorded(seen, Tail(rec))
         ELSE <<Head(rec).key>> \o FirstRecorded(seen \cup {Head(rec).key}, Tail(rec))

\* The value assigned last to key k.
LastRecorded(k) ==
    recorded[CHOOSE i \in 1..Len(recorded) :
                /\ recorded[i].key = k
                /\ \A j \in (i + 1)..Len(recorded) : recorded[j].key # k].val

\* C4: the summary has one line per distinct test, in the order in which the
\* tests were first recorded; a test recorded again keeps its line, which
\* shows the outcome recorded last.
C4_LinesInFirstRecordedOrder ==
    Finalized =>
        LET order == FirstRecorded({}, recorded)
        IN  /\ Len(summary) = 1 + 4 * Len(order) + (IF thermals # <<>> THEN 2 ELSE 0) + 3
            /\ \A i \in 1..Len(order) :
                  /\ summary[4 * i - 2].s = order[i]
                  /\ summary[4 * i].s =
                        (IF LastRecorded(order[i]) THEN "Passed" ELSE "Failed")

\* A test recorded, another one recorded, and the first recorded again with
\* another outcome.
C4_Witness ==
    /\ Finalized
    /\ Len(recorded) = 3
    /\ recorded[1].key = recorded[3].key
    /\ recorded[1].key # recorded[2].key
    /\ recorded[1].val # recorded[3].val
    /\ Len(results) = 2

\* C5: the summary is written exactly once per with-block: not before the
\* block is left, once when it has been left, normally or by an exception.
C5_FinalizedExactlyOnce ==
    /\ finalizations <= 1
    /\ pc = "done" => finalizations = 1
    /\ pc # "done" => finalizations = 0

\* The block was left by an exception after a test ran, and the summary is written.
C5_Witness ==
    /\ pc = "done"
    /\ exc
    /\ calls # <<>>
    /\ finalizations = 1

\* A run_test call is made in this step.
RunTestStep == Len(calls') = Len(calls) + 1

\* The summary has a line for the test that shows the given outcome.
SummaryLine(test, outcome) ==
    \E i \in 1..Len(results) :
        /\ summary[4 * i - 2].s = test
        /\ summary[4 * i].s = outcome

\* C6: a run_test whose child cannot be launched, or whose output cannot be
\* read to the end, writes the exception text, records False and returns
\* without raising; it records True exactly when the child was launched, read
\* to the end and exited with code 0; and when the block is left after a
\* failed run_test the summary is written and shows the test as failed.
C6_FailedRunRecordedFalse ==
    /\ [][RunTestStep =>
            LET o == last'.run
                t == last'.test
                n == Len(file')
            IN  /\ t \in Keys(results')
                /\ Value(results', t) = TRUE <=>
                        (o.launch /\ o.ended = "eof" /\ o.rc = 0)
                /\ (o.launch /\ o.ended = "eof" /\ o.rc # 0) => Value(results', t) = FALSE
                /\ (~o.launch \/ o.ended = "exc") =>
                        /\ Value(results', t) = FALSE
                        /\ file'[n - 1].s \in {"[Errno 2] No such file or directory",
                                               "'utf-8' codec can't decode byte"}
                        /\ file'[n].s = "NL"
                        /\ exc' = exc
                        /\ pc' \in {"dispatch", "end", "body"}
                        /\ thermals' = thermals]_vars
    /\ []((pc = "done" /\ last.test # "" /\ ~last.run.launch) =>
            (Finalized /\ SummaryLine(last.test, "Failed")))

\* main ran a test whose executable does not exist and went on to the summary.
C6_Witness ==
    /\ driver = "main"
    /\ pc = "done"
    /\ ~exc
    /\ last.test = "tflite_utils_test"
    /\ ~last.run.launch
    /\ Value(results, last.test) = FALSE
    /\ SummaryLine(last.test, "Failed")

\* A run of main that left the with-block without an exception.
MainCompleted == driver = "main" /\ pc = "done" /\ ~exc

\* The list main passes to run_test for a test name.
Mapped(name) == Branches[CHOOSE i \in 1..Len(Branches) : Branches[i].name = name].test

C8_ChildrenWaitedFor ==
    /\ unwaited = 0
    /\ ~overlap

\* The latest run_test read the temperatures and the try block of
\* _read_temperatures raised.
ReadFailure == cat # NoRun /\ ReadFailed(cat)

\* The lines before the first one float() rejects.
ReadBefore(lines) ==
    SubSeq(lines, 1, (CHOOSE i \in 1..Len(lines) :
                         /\ ~IsFloat(lines[i])
                         /\ \A j \in 1..(i - 1) : IsFloat(lines[j])) - 1)

\* C9 as stated: a _read_temperatures that meets a read failure leaves
\* thermals unchanged, lets no exception escape and does not affect the
\* result of the test.
C9_ReadFailureRecordsNothing ==
    [][(RunTestStep /\ ReadFailure') =>
          /\ thermals' = thermals
          /\ exc' = exc
          /\ Value(results', last'.test) = (last'.run.rc = 0)]_vars

\* C9 amended: a _read_temperatures that meets a read failure lets no
\* exception escape and does not affect the result of the test; it leaves
\* thermals unchanged when the failure came before any reading was parsed,
\* and otherwise records for the test the greatest of the readings parsed
\* before the failure, leaving the entries of the other tests unchanged.
C9_ReadFailureKeepsEarlierReadings ==
    [][(RunTestStep /\ ReadFailure') =>
          LET t == last'.test
              before == ReadBefore(cat'.lines)
          IN  /\ exc' = exc
              /\ Value(results', t) = (last'.run.rc = 0)
              /\ before = <<>> => thermals' = thermals
              /\ before # <<>> =>
                    /\ t \in Keys(thermals')
                    /\ \E i \in 1..Len(before) : Value(thermals', t) = ToDegrees(before[i])
                    /\ \A i \in 1..Len(before) :
                          FloatLE(ToDegrees(before[i]), Value(thermals', t))
                    /\ \A k \in Keys(thermals) \ {t} :
                          Value(thermals', k) = Value(thermals, k)
                    /\ Keys(thermals') = Keys(thermals) \cup {t}]_vars

\* A reading was parsed, the next line was rejected, and the reading is recorded.
C9_Witness ==
    /\ ReadFailure
    /\ IsFloat(cat.lines[1])
    /\ last.test \in Keys(thermals)
    /\ Value(thermals, last.test) = ToDegrees(cat.lines[1])

\* C10: thermals holds an entry for a test only if detect_tpus set the PCI
\* flag, the platform is linux and the process of that test ran to exit;
\* while the PCI flag is not set thermals is empty and neither the
\* temperature block nor a maximum temperature line is in the file.
C10_ThermalsOnlyAfterPciDetection ==
    /\ pci => (driver = "api" /\ ops > Len(calls))
    /\ \A i \in 1..Len(thermals) :
          /\ pci
          /\ platform = "linux"
          /\ thermals[i].key \in exited
    /\ ~pci =>
          /\ thermals = <<>>
          /\ \A i \in 1..Len(file) :
                file[i].s \notin {"Temperatures During Tests", MaxLabel}

\* A temperature was recorded and the summary shows the maximum.
C10_Witness ==
    /\ Finalized
    /\ thermals # <<>>
    /\ \E i \in 1..Len(file) : file[i].s = MaxLabel

====
